---- MODULE Spec2Model ----
(***************************************************************************)
(* scripts/increment_build.py: the pre-build hook that increments the      *)
(* BUILD number of src/version.h.                                          *)
(*                                                                         *)
(* A file's content is a sequence of characters.  The keywords and the     *)
(* punctuation of the pattern are one character each ("static", "=", ...); *)
(* the white space characters are "SP", "TAB", "LF", "CR"; "x" is any      *)
(* other character.  UTF-8 encoding and decoding are the identity on these *)
(* characters; a byte sequence that does not decode is the fault ReadFail. *)
(***************************************************************************)
EXTENDS Integers, Sequences, FiniteSets, TLC

\* ---- bounds of the model ----
MaxRuns == 2
MaxFaults == 1

\* ---- constants of the script ----
VERSION_H == "src/version.h"
BACKUP_SUFFIX == ".bak"

DigitChars == <<"0", "1", "2", "3", "4", "5", "6", "7", "8", "9">>
Digit == {DigitChars[i] : i \in 1..10}
Space == {"SP", "TAB", "LF", "CR"}

DigitVal(c) == (CHOOSE i \in 1..10 : DigitChars[i] = c) - 1

\* int(s) for a string of decimal digits
RECURSIVE IntOf(_)
IntOf(s) ==
    IF s = <<>> THEN 0
    ELSE IntOf(SubSeq(s, 1, Len(s) - 1)) * 10 + DigitVal(s[Len(s)])

\* str(n) for n >= 0
RECURSIVE StrOf(_)
StrOf(n) ==
    IF n < 10 THEN <<DigitChars[n + 1]>>
    ELSE StrOf(n \div 10) \o <<DigitChars[(n % 10) + 1]>>

UINT16_MAX == 65535

\* mutants of Increment: the value is written back as it was; the value wraps
\* at the width of uint16_t
IncrementNone(old) == old
IncrementWrap(old) == (old + 1) % (UINT16_MAX + 1)

\* new = old + 1; Python integers are unbounded
Increment(old) == old + 1

\* ---- text mode I/O ----
\* reading with newline=None: "\r\n" and "\r" both become "\n"
RECURSIVE UniversalNewlines(_)
UniversalNewlines(b) ==
    IF b = <<>> THEN <<>>
    ELSE IF b[1] = "CR" THEN
        IF Len(b) >= 2 /\ b[2] = "LF"
        THEN <<"LF">> \o UniversalNewlines(SubSeq(b, 3, Len(b)))
        ELSE <<"LF">> \o UniversalNewlines(Tail(b))
    ELSE <<b[1]>> \o UniversalNewlines(Tail(b))

\* writing with newline=None: every "\n" becomes os.linesep
RECURSIVE WriteNewlines(_, _)
WriteNewlines(t, sep) ==
    IF t = <<>> THEN <<>>
    ELSE (IF t[1] = "LF" THEN sep ELSE <<t[1]>>) \o WriteNewlines(Tail(t), sep)

\* ---- the regular expression ----
\* (static\s+constexpr\s+uint16_t\s+BUILD\s*=\s*)(\d+)(\s*;)
Lit(tok) == [kind |-> "lit", tok |-> tok, set |-> {}, min |-> 1]
Cls(set, min) == [kind |-> "cls", tok |-> "", set |-> set, min |-> min]

pattern ==
    << Lit("static"), Cls(Space, 1), Lit("constexpr"), Cls(Space, 1),
       Lit("uint16_t"), Cls(Space, 1), Lit("BUILD"), Cls(Space, 0),
       Lit("="), Cls(Space, 0),
       Cls(Digit, 1),
       Cls(Space, 0), Lit(";") >>

Group1Items == 10
Group2Items == 11
Group3Items == 13

\* the position after the longest run of characters of `set` that starts at i
RECURSIVE RunEnd(_, _, _)
RunEnd(t, i, set) ==
    IF i <= Len(t) /\ t[i] \in set THEN RunEnd(t, i + 1, set) ELSE i

\* the position after the first k items of the pattern matched at i, 0 if
\* they do not match there (the quantifiers are greedy, and no item shares a
\* character with the item after it, so there is nothing to backtrack into)
RECURSIVE EndAfter(_, _, _)
EndAfter(t, i, k) ==
    IF k = 0 THEN i
    ELSE LET p == EndAfter(t, i, k - 1)
             it == pattern[k]
         IN  IF p = 0 THEN 0
             ELSE IF it.kind = "lit"
                  THEN IF p <= Len(t) /\ t[p] = it.tok THEN p + 1 ELSE 0
                  ELSE LET q == RunEnd(t, p, it.set)
                       IN  IF q - p >= it.min THEN q ELSE 0

NoMatch == [start |-> 0, g2 |-> 0, g3 |-> 0, end |-> 0]

MatchAt(t, i) ==
    [start |-> i, g2 |-> EndAfter(t, i, Group1Items),
     g3 |-> EndAfter(t, i, Group2Items), end |-> EndAfter(t, i, Group3Items)]

\* pattern.search(text, pos): the leftmost match at or after `from` (a match
\* starts where the first literal of the pattern is)
SearchFrom(t, from) ==
    LET hits == {i \in from..Len(t) :
                    t[i] = pattern[1].tok /\ EndAfter(t, i, Group3Items) # 0}
    IN  IF hits = {} THEN NoMatch
        ELSE MatchAt(t, CHOOSE i \in hits : \A j \in hits : i <= j)

search(t) == SearchFrom(t, 1)

group1(t, m) == SubSeq(t, m.start, m.g2 - 1)
group2(t, m) == SubSeq(t, m.g2, m.g3 - 1)
group3(t, m) == SubSeq(t, m.g3, m.end - 1)

\* lambda m: m.group(1) + str(new) + m.group(3)
repl(t, m, new) == group1(t, m) \o StrOf(new) \o group3(t, m)

\* mutant of sub: count=0, every match is replaced
RECURSIVE sub_all(_, _)
sub_all(t, new) ==
    LET m == search(t)
    IN  IF m = NoMatch THEN t
        ELSE SubSeq(t, 1, m.start - 1) \o repl(t, m, new)
             \o sub_all(SubSeq(t, m.end, Len(t)), new)

\* pattern.sub(repl, text, count=1)
sub(t, new) ==
    LET m == search(t)
    IN  IF m = NoMatch THEN t
        ELSE SubSeq(t, 1, m.start - 1) \o repl(t, m, new)
             \o SubSeq(t, m.end, Len(t))

\* ---- the file system ----
\* bak = VERSION_H.with_name(VERSION_H.name + BACKUP_SUFFIX)
bak == VERSION_H \o BACKUP_SUFFIX
\* tmp = VERSION_H.with_suffix(VERSION_H.suffix + ".tmp")
tmp == VERSION_H \o ".tmp"

Paths == {VERSION_H, bak, tmp}
NoFile == [exists |-> FALSE, data |-> <<>>]
File(d) == [exists |-> TRUE, data |-> d]

\* the outcomes of Path.write_text(data) raising: open() failed and the file
\* is as it was, or open() truncated the file and some prefix of the data
\* reached it
WriteFailOutcomes(old, d) ==
    {old} \cup {File(SubSeq(d, 1, k)) : k \in 0..Len(d)}

\* ---- console messages ----
WarnNotFound ==
    [msg |-> "warning: not found, skipping build increment",
     path |-> VERSION_H, old |-> 0, new |-> 0]
WarnNoPattern ==
    [msg |-> "warning: BUILD pattern not found, skipping",
     path |-> VERSION_H, old |-> 0, new |-> 0]
Updated(o, n) ==
    [msg |-> "updated BUILD", path |-> VERSION_H, old |-> o, new |-> n]

\* ---- the inputs: contents of src/version.h ----
Eols == {<<"LF">>, <<"CR", "LF">>}
Lineseps == {<<"LF">>, <<"CR", "LF">>}

DigitStrings == {<<"9">>, <<"4", "1">>, <<"6", "5", "5", "3", "5">>}

PlainDecl(d) ==
    <<"static", "SP", "constexpr", "SP", "uint16_t", "SP", "BUILD", "SP",
      "=", "SP">> \o d \o <<";">>
TightDecl(d) ==
    <<"static", "SP", "constexpr", "SP", "uint16_t", "SP", "BUILD", "=">>
    \o d \o <<";">>
WideDecl(d) ==
    <<"static", "SP", "SP", "constexpr", "TAB", "uint16_t", "CR", "LF",
      "BUILD", "SP", "=", "LF">> \o d \o <<"SP", ";">>

DeclLines ==
    {PlainDecl(d) : d \in DigitStrings}
    \cup {TightDecl(<<"0", "0", "7">>), WideDecl(<<"9">>)}

\* lines that do not match: no declaration prefix, no digits, no white space
\* between the keywords
OtherLines ==
    { <<"x">>,
      <<"BUILD", "SP", "=", "SP", "5", ";">>,
      <<"static", "SP", "constexpr", "SP", "uint16_t", "SP", "BUILD", "SP",
        "=", "SP", ";">>,
      <<"static", "constexpr", "uint16_t", "BUILD", "=", "3", ";">> }

Lines == DeclLines \cup OtherLines

\* the first and the second line of the contents of two lines
FirstLines ==
    { <<"x">>,
      PlainDecl(<<"9">>),
      <<"static", "SP", "constexpr", "SP", "uint16_t", "SP", "BUILD", "SP",
        "=", "SP", ";">> }
SecondLines == {TightDecl(<<"0", "0", "7">>), PlainDecl(<<"4", "1">>)}

RECURSIVE Join(_, _)
Join(ls, eol) ==
    IF ls = <<>> THEN <<>> ELSE ls[1] \o eol \o Join(Tail(ls), eol)

\* the empty file, a declaration without a line end, every line alone with
\* its line end, pairs of lines, and one content of three declarations
Contents ==
    {<<>>, PlainDecl(<<"4", "1">>)}
    \cup {Join(<<l>>, eol) : l \in Lines, eol \in Eols}
    \cup {Join(<<a, b>>, <<"LF">>) : a \in FirstLines, b \in SecondLines}
    \cup {Join(<<TightDecl(<<"9">>), TightDecl(<<"9">>),
                  TightDecl(<<"4", "1">>)>>, <<"LF">>)}

\* ---- state ----
VARIABLES
    fs,        \* the file system: path -> file
    linesep,   \* os.linesep of the platform the build runs on
    pc,        \* the statement increment_build() is at; "idle" between runs
    text,      \* local: text
    new_text,  \* local: new_text
    old,       \* local: old
    new,       \* local: new
    out,       \* what the current or last run printed
    result,    \* how the last run ended
    runs,      \* runs started
    faults,    \* I/O errors raised so far
    pre,       \* history: the file system when the current or last run began
    first,     \* history: src/version.h before the first run
    succ       \* history: number of runs that reached the success path

vars == <<fs, linesep, pc, text, new_text, old, new, out, result, runs,
          faults, pre, first, succ>>

locals == <<text, new_text, old, new>>
hist == <<pre, first, succ>>

Init ==
    /\ \E f \in {NoFile} \cup {File(c) : c \in Contents} :
          /\ fs = [p \in Paths |-> IF p = VERSION_H THEN f ELSE NoFile]
          /\ first = f
    /\ linesep \in Lineseps
    /\ pc = "idle"
    /\ text = <<>>
    /\ new_text = <<>>
    /\ old = 0
    /\ new = 0
    /\ out = <<>>
    /\ result = "none"
    /\ runs = 0
    /\ faults = 0
    /\ pre = fs
    /\ succ = 0

\* the build tool imports the module, which calls increment_build()
Import ==
    /\ pc = "idle"
    /\ runs < MaxRuns
    /\ runs' = runs + 1
    /\ pc' = "exists"
    /\ pre' = fs
    /\ out' = <<>>
    /\ result' = "running"
    /\ text' = <<>>
    /\ new_text' = <<>>
    /\ old' = 0
    /\ new' = 0
    /\ UNCHANGED <<fs, linesep, faults, first, succ>>

\* mutant of CheckExists: the file is read whether it exists or not
CheckExistsSkipped ==
    /\ pc = "exists"
    /\ pc' = "read"
    /\ UNCHANGED <<fs, linesep, locals, out, result, runs, faults, hist>>

\* if not VERSION_H.exists(): print warning; return
CheckExists ==
    /\ pc = "exists"
    /\ IF ~fs[VERSION_H].exists
       THEN /\ out' = Append(out, WarnNotFound)
            /\ result' = "skip_nofile"
            /\ pc' = "idle"
       ELSE /\ pc' = "read"
            /\ UNCHANGED <<out, result>>
    /\ UNCHANGED <<fs, linesep, locals, runs, faults, hist>>

\* text = VERSION_H.read_text(encoding="utf-8")
ReadText ==
    /\ pc = "read"
    /\ text' = UniversalNewlines(fs[VERSION_H].data)
    /\ pc' = "search"
    /\ UNCHANGED <<fs, linesep, new_text, old, new, out, result, runs,
                   faults, hist>>

\* an exception leaves increment_build() and the import
Raise ==
    /\ faults < MaxFaults
    /\ faults' = faults + 1
    /\ result' = "error"
    /\ pc' = "idle"

\* read_text raises (permission denied, not UTF-8)
ReadFail ==
    /\ pc = "read"
    /\ Raise
    /\ UNCHANGED <<fs, linesep, locals, out, runs, hist>>

\* what lines 29-32 assign once the pattern is found
Computed ==
    /\ old' = IntOf(group2(text, search(text)))
    /\ new' = Increment(old')
    /\ new_text' = sub(text, new')

\* mutant of Search: the backup is taken before the pattern is looked for
SearchAfterBackup ==
    /\ pc = "search"
    /\ fs' = [fs EXCEPT ![bak] = File(WriteNewlines(text, linesep))]
    /\ IF search(text) = NoMatch
       THEN /\ out' = Append(out, WarnNoPattern)
            /\ result' = "skip_nopattern"
            /\ pc' = "idle"
            /\ UNCHANGED <<old, new, new_text>>
       ELSE /\ Computed
            /\ pc' = "backup"
            /\ UNCHANGED <<out, result>>
    /\ UNCHANGED <<linesep, text, runs, faults, hist>>

\* m = pattern.search(text); if not m: print warning; return
\* old = int(m.group(2)); new = old + 1; new_text = pattern.sub(..., count=1)
Search ==
    /\ pc = "search"
    /\ IF search(text) = NoMatch
       THEN /\ out' = Append(out, WarnNoPattern)
            /\ result' = "skip_nopattern"
            /\ pc' = "idle"
            /\ UNCHANGED <<old, new, new_text>>
       ELSE /\ Computed
            /\ pc' = "backup"
            /\ UNCHANGED <<out, result>>
    /\ UNCHANGED <<fs, linesep, text, runs, faults, hist>>

\* bak.write_text(text, encoding="utf-8")
Backup ==
    /\ pc = "backup"
    /\ fs' = [fs EXCEPT ![bak] = File(WriteNewlines(text, linesep))]
    /\ pc' = "write_tmp"
    /\ UNCHANGED <<linesep, locals, out, result, runs, faults, hist>>

\* bak.write_text raises
BackupFail ==
    /\ pc = "backup"
    /\ Raise
    /\ \E f \in WriteFailOutcomes(fs[bak], WriteNewlines(text, linesep)) :
          fs' = [fs EXCEPT ![bak] = f]
    /\ UNCHANGED <<linesep, locals, out, runs, hist>>

\* mutant of WriteTmp: the temporary file is opened for appending
WriteTmpAppend ==
    /\ pc = "write_tmp"
    /\ fs' = [fs EXCEPT ![tmp] =
                 File(fs[tmp].data \o WriteNewlines(new_text, linesep))]
    /\ pc' = "replace"
    /\ UNCHANGED <<linesep, locals, out, result, runs, faults, hist>>

\* tmp.write_text(new_text, encoding="utf-8")
WriteTmp ==
    /\ pc = "write_tmp"
    /\ fs' = [fs EXCEPT ![tmp] = File(WriteNewlines(new_text, linesep))]
    /\ pc' = "replace"
    /\ UNCHANGED <<linesep, locals, out, result, runs, faults, hist>>

\* mutant of WriteTmpFail: the new text is written to src/version.h itself
WriteDirectFail ==
    /\ pc = "write_tmp"
    /\ Raise
    /\ \E f \in WriteFailOutcomes(fs[VERSION_H],
                                  WriteNewlines(new_text, linesep)) :
          fs' = [fs EXCEPT ![VERSION_H] = f]
    /\ UNCHANGED <<linesep, locals, out, runs, hist>>

\* tmp.write_text raises
WriteTmpFail ==
    /\ pc = "write_tmp"
    /\ Raise
    /\ \E f \in WriteFailOutcomes(fs[tmp], WriteNewlines(new_text, linesep)) :
          fs' = [fs EXCEPT ![tmp] = f]
    /\ UNCHANGED <<linesep, locals, out, runs, hist>>

\* tmp.replace(VERSION_H): one rename
Replace ==
    /\ pc = "replace"
    /\ fs' = [fs EXCEPT ![VERSION_H] = fs[tmp], ![tmp] = NoFile]
    /\ pc' = "report"
    /\ UNCHANGED <<linesep, locals, out, result, runs, faults, hist>>

\* the rename raises: nothing is renamed
ReplaceFail ==
    /\ pc = "replace"
    /\ Raise
    /\ UNCHANGED <<fs, linesep, locals, out, runs, hist>>

\* print(updated BUILD: old -> new); the function returns
Report ==
    /\ pc = "report"
    /\ out' = Append(out, Updated(old, new))
    /\ result' = "success"
    /\ succ' = succ + 1
    /\ pc' = "idle"
    /\ UNCHANGED <<fs, linesep, locals, runs, faults, pre, first>>

Next ==
    \/ Import
    \/ CheckExists
    \/ ReadText
    \/ ReadFail
    \/ Search
    \/ Backup
    \/ BackupFail
    \/ WriteTmp
    \/ WriteTmpFail
    \/ Replace
    \/ ReplaceFail
    \/ Report

Spec == Init /\ [][Next]_vars

\* ---- vocabulary of the properties ----
vh == fs[VERSION_H]
vh0 == pre[VERSION_H]

HasBuild(d) == search(d) # NoMatch
\* the BUILD value of a content: the digits of its first declaration
BuildValue(d) == IntOf(group2(d, search(d)))

\* the digit spans of all declarations of a content, in document order
RECURSIVE DigitSpans(_)
DigitSpans(d) ==
    LET m == search(d)
    IN  IF m = NoMatch THEN <<>>
        ELSE <<group2(d, m)>> \o DigitSpans(SubSeq(d, m.end, Len(d)))

\* a content with the digits of its first declaration replaced by those of
\* n, and every other character kept
WithBuild(d, n) ==
    LET m == search(d)
    IN  SubSeq(d, 1, m.g2 - 1) \o StrOf(n) \o SubSeq(d, m.g3, Len(d))

InRun == result # "none"
Ended == pc = "idle" /\ result # "none"

\* C1: after a run on a content with a declaration BUILD = N; the file is the
\* content it was before the run with N+1 in place of the digits of the first
\* declaration, and every other character as it was.
C1_OnlyDigitsChange ==
    (result = "success" /\ HasBuild(vh0.data))
        => vh = File(WithBuild(vh0.data, BuildValue(vh0.data) + 1))

\* C2: after a run that reaches the success path, src/version.h.bak holds
\* exactly what src/version.h held before the run.
C2_BackupIsOriginal ==
    result = "success" => fs[bak] = File(vh0.data)

\* C3: from its start to its end, failures included, a run leaves
\* src/version.h either as it was before the run or holding the complete new
\* text, and the content changes in the rename step only.
C3_OldOrNew ==
    InRun =>
       \/ vh = vh0
       \/ /\ pc \in {"report", "idle"}
          /\ result \in {"running", "success"}
          /\ vh = File(WriteNewlines(new_text, linesep))
          /\ HasBuild(vh.data)
          /\ BuildValue(vh.data) = BuildValue(vh0.data) + 1

C3_RenameOnly ==
    fs'[VERSION_H] # fs[VERSION_H] => pc = "replace" /\ pc' = "report"

C3_AtomicCommit == [](C3_OldOrNew) /\ [][C3_RenameOnly]_vars

C3_Witness ==
    \/ pc = "report" /\ vh # vh0
    \/ result = "error" /\ fs[tmp].exists
           /\ fs[tmp].data # WriteNewlines(new_text, linesep)

\* C4: a run on an existing file without a BUILD declaration changes no file,
\* prints the one warning and returns normally.
C4_NoPatternNoOp ==
    (InRun /\ vh0.exists) =>
       \/ /\ fs = pre
          /\ (Ended /\ result # "error") =>
                 /\ result = "skip_nopattern"
                 /\ out = <<WarnNoPattern>>
       \/ HasBuild(vh0.data)

C4_Witness ==
    /\ result = "skip_nopattern"
    /\ vh0.exists
    /\ vh0.data # <<>>
    /\ "BUILD" \in {vh0.data[i] : i \in 1..Len(vh0.data)}

\* C5: a run without src/version.h creates no file, prints the one warning
\* that names the path and returns normally.
C5_NoFileNoOp ==
    (InRun /\ ~vh0.exists) =>
       /\ fs = pre
       /\ \A p \in Paths : ~fs[p].exists
       /\ Ended =>
              /\ result = "skip_nofile"
              /\ out = <<WarnNotFound>>
              /\ out[1].path = VERSION_H

C5_Witness == result = "skip_nofile" /\ ~vh0.exists /\ Len(out) = 1

\* C6: a run on a content with two or more declarations increments the first
\* one only; every later declaration keeps its digits.
C6_FirstMatchOnly ==
    (result = "success" /\ Len(DigitSpans(vh0.data)) >= 2) =>
       DigitSpans(vh.data) =
          <<StrOf(IntOf(DigitSpans(vh0.data)[1]) + 1)>>
          \o Tail(DigitSpans(vh0.data))

C6_Witness ==
    /\ result = "success"
    /\ Len(DigitSpans(vh0.data)) >= 2
    /\ DigitSpans(vh.data)[2] = DigitSpans(vh0.data)[2]
    /\ DigitSpans(vh.data)[1] # DigitSpans(vh0.data)[1]

\* C7: k runs in succession on a content with BUILD value N leave the value
\* N+k: every run that meets no I/O error raises the value by one, the value
\* never decreases, and the backup holds the text with value N+k-1.
C7_AfterRuns ==
    (Ended /\ first.exists /\ (vh # first \/ result # "error")
       /\ HasBuild(first.data)) =>
       /\ HasBuild(vh.data)
       /\ BuildValue(vh.data) = BuildValue(first.data) + succ
       /\ faults = 0 => succ = runs
       /\ result # "error" => result = "success"
       /\ result = "success" =>
              /\ fs[bak].exists
              /\ HasBuild(fs[bak].data)
              /\ BuildValue(fs[bak].data) = BuildValue(first.data) + succ - 1

C7_NeverDecreases ==
    (fs'[VERSION_H] # fs[VERSION_H] /\ HasBuild(fs[VERSION_H].data)) =>
       /\ HasBuild(fs'[VERSION_H].data)
       /\ BuildValue(fs'[VERSION_H].data) >= BuildValue(fs[VERSION_H].data)

C7_Successive == [](C7_AfterRuns) /\ [][C7_NeverDecreases]_vars

C7_Witness ==
    /\ result = "success"
    /\ succ = 2
    /\ BuildValue(vh.data) = BuildValue(first.data) + 2
    /\ BuildValue(fs[bak].data) = BuildValue(first.data) + 1

\* C8: a run on a BUILD value of 65535 or more writes the value plus one in
\* decimal, neither wrapped nor refused, and prints no warning.
C8_NoWraparound ==
    (Ended /\ result # "error" /\ vh0.exists /\ HasBuild(vh0.data)
       /\ BuildValue(vh0.data) >= UINT16_MAX) =>
       /\ result = "success"
       /\ HasBuild(vh.data)
       /\ BuildValue(vh.data) = BuildValue(vh0.data) + 1
       /\ group2(vh.data, search(vh.data)) = StrOf(BuildValue(vh0.data) + 1)
       /\ out = <<Updated(BuildValue(vh0.data), BuildValue(vh0.data) + 1)>>

C8_Witness ==
    /\ result = "success"
    /\ BuildValue(vh0.data) = UINT16_MAX
    /\ group2(vh.data, search(vh.data)) = <<"6", "5", "5", "3", "6">>

\* C9: whenever src/version.h holds the new text of a run, the backup holds
\* the complete original text of that run; and a run that fails while it
\* writes the backup or the temporary file leaves src/version.h as it was.
C9_BackupBeforeChange ==
    /\ (InRun /\ vh # vh0) => fs[bak] = File(vh0.data)
    /\ (result = "error" /\ pc = "idle") => vh = vh0

\* C10: after a successful run src/version.h.tmp does not exist, and what
\* src/version.h holds is the new text of the run, whatever a stale
\* src/version.h.tmp held before.
C10_NoTmpLeft ==
    result = "success" =>
       /\ ~fs[tmp].exists
       /\ vh = File(WriteNewlines(new_text, linesep))
       /\ BuildValue(vh.data) = BuildValue(vh0.data) + 1
       /\ DigitSpans(vh.data) = <<StrOf(new)>> \o Tail(DigitSpans(vh0.data))

C10_Witness ==
    /\ result = "success"
    /\ pre[tmp].exists
    /\ pre[tmp].data # vh.data
    /\ ~fs[tmp].exists

====
